---- MODULE Spec2Model ----
(***************************************************************************)
(* Model of scripts/fetch_rss_news.py: the RSS ingestion pipeline.         *)
(*                                                                         *)
(* Text is a sequence of one-character strings, so that substring search,  *)
(* lower-casing, the regular expressions and slicing are computed on       *)
(* characters as the Python code computes them.  Python's None is the      *)
(* empty tuple and a present value x is the one-element tuple <<x>>.       *)
(***************************************************************************)
EXTENDS Integers, Sequences, FiniteSets, TLC

(* ------------------------------ characters ----------------------------- *)

UpperLetters == <<"A","B","C","D","E","F","G","H","I","J","K","L","M",
                  "N","O","P","Q","R","S","T","U","V","W","X","Y","Z">>
LowerLetters == <<"a","b","c","d","e","f","g","h","i","j","k","l","m",
                  "n","o","p","q","r","s","t","u","v","w","x","y","z">>
Digits == {"0","1","2","3","4","5","6","7","8","9"}
Whitespace == {" ", "\t", "\n", "\r"}

Range(s) == {s[i] : i \in DOMAIN s}

UpperSet == Range(UpperLetters)
LowerSet == Range(LowerLetters)
AlphaSet == UpperSet \cup LowerSet
WordSet == AlphaSet \cup Digits \cup {"_"}
ToLower == [c \in UpperSet |-> LowerLetters[CHOOSE i \in DOMAIN UpperLetters : UpperLetters[i] = c]]
ToUpper == [c \in LowerSet |-> UpperLetters[CHOOSE i \in DOMAIN LowerLetters : LowerLetters[i] = c]]

\* str.lower() / str.upper() on one character
LowerChar(c) == IF c \in UpperSet THEN ToLower[c] ELSE c
UpperChar(c) == IF c \in LowerSet THEN ToUpper[c] ELSE c

\* s.lower(), s.upper()
lower(s) == SubSeq([i \in 1..Len(s) |-> LowerChar(s[i])], 1, Len(s))
upper(s) == SubSeq([i \in 1..Len(s) |-> UpperChar(s[i])], 1, Len(s))

\* the regular expression classes [a-zA-Z], \d and \w
IsAlpha(c) == c \in AlphaSet
IsDigit(c) == c \in Digits
IsWord(c) == c \in WordSet

\* Python's  kw in text
Contains(text, kw) ==
  \E i \in 1..(Len(text) - Len(kw) + 1) :
    \A j \in 1..Len(kw) : text[i + j - 1] = kw[j]

\* whether text has pat at position i
At(text, i, pat) ==
  /\ i >= 1
  /\ i + Len(pat) - 1 <= Len(text)
  /\ \A j \in 1..Len(pat) : text[i + j - 1] = pat[j]

\* Python's  s[:n]
Slice(s, n) == SubSeq(s, 1, IF Len(s) < n THEN Len(s) ELSE n)

\* s.strip(): scan past the whitespace from the left and from the right
strip(s) ==
  LET n == Len(s)
  IN  IF \A i \in 1..n : s[i] \in Whitespace THEN <<>>
      ELSE LET lo == CHOOSE i \in 1..n :
                       s[i] \notin Whitespace /\ \A k \in 1..(i - 1) : s[k] \in Whitespace
               back == CHOOSE d \in 0..(n - 1) :
                         /\ s[n - d] \notin Whitespace
                         /\ \A k \in (n - d + 1)..n : s[k] \in Whitespace
           IN  SubSeq(s, lo, n - back)

\* s without the characters at the positions in dropped
Indices(n) == [i \in 1..n |-> i]
Remove(s, dropped) ==
  LET kept == SelectSeq(Indices(Len(s)), LAMBDA i : i \notin dropped)
  IN  SubSeq([k \in 1..Len(kept) |-> s[kept[k]]], 1, Len(kept))

(* ------------------------------ configuration -------------------------- *)

WEBHOOK_URL == "http://localhost:8080/v1/webhooks/n8n"
WEBHOOK_SECRET == "dev_webhook_secret_local"

RSS_FEEDS ==
  << [url |-> "https://feeds.feedburner.com/TheHackersNews", name |-> "The Hacker News"],
     [url |-> "https://www.bleepingcomputer.com/feed/", name |-> "BleepingComputer"] >>

CATEGORY_KEYWORDS ==
  << [label |-> "vulnerabilities", keywords |-> <<
        <<"v","u","l","n","e","r","a","b","i","l","i","t","y">>,
        <<"c","v","e">>,
        <<"e","x","p","l","o","i","t">>,
        <<"z","e","r","o","-","d","a","y">>,
        <<"p","a","t","c","h">>,
        <<"s","e","c","u","r","i","t","y"," ","f","l","a","w">>,
        <<"b","u","g">> >>],
     [label |-> "ransomware", keywords |-> <<
        <<"r","a","n","s","o","m","w","a","r","e">>,
        <<"l","o","c","k","b","i","t">>,
        <<"b","l","a","c","k","c","a","t">>,
        <<"a","l","p","h","v">>,
        <<"c","o","n","t","i">>,
        <<"r","a","n","s","o","m">> >>],
     [label |-> "data-breaches", keywords |-> <<
        <<"b","r","e","a","c","h">>,
        <<"l","e","a","k">>,
        <<"e","x","p","o","s","e","d">>,
        <<"c","o","m","p","r","o","m","i","s","e","d">>,
        <<"s","t","o","l","e","n"," ","d","a","t","a">> >>],
     [label |-> "malware", keywords |-> <<
        <<"m","a","l","w","a","r","e">>,
        <<"t","r","o","j","a","n">>,
        <<"v","i","r","u","s">>,
        <<"b","a","c","k","d","o","o","r">>,
        <<"r","a","t">>,
        <<"i","n","f","o","s","t","e","a","l","e","r">>,
        <<"b","o","t","n","e","t">> >>],
     [label |-> "phishing", keywords |-> <<
        <<"p","h","i","s","h","i","n","g">>,
        <<"s","c","a","m">>,
        <<"s","o","c","i","a","l"," ","e","n","g","i","n","e","e","r","i","n","g">>,
        <<"b","e","c">>,
        <<"e","m","a","i","l"," ","a","t","t","a","c","k">> >>],
     [label |-> "threat-actors", keywords |-> <<
        <<"a","p","t">>,
        <<"t","h","r","e","a","t"," ","a","c","t","o","r">>,
        <<"h","a","c","k","e","r"," ","g","r","o","u","p">>,
        <<"n","a","t","i","o","n","-","s","t","a","t","e">>,
        <<"l","a","z","a","r","u","s">>,
        <<"a","p","t","2","9">> >>],
     [label |-> "compliance", keywords |-> <<
        <<"c","o","m","p","l","i","a","n","c","e">>,
        <<"r","e","g","u","l","a","t","i","o","n">>,
        <<"g","d","p","r">>,
        <<"h","i","p","a","a">>,
        <<"p","c","i">> >>] >>

SEVERITY_KEYWORDS ==
  << [label |-> "critical", keywords |-> <<
        <<"c","r","i","t","i","c","a","l">>,
        <<"u","r","g","e","n","t">>,
        <<"e","m","e","r","g","e","n","c","y">>,
        <<"z","e","r","o","-","d","a","y">>,
        <<"a","c","t","i","v","e","l","y"," ","e","x","p","l","o","i","t","e","d">>,
        <<"r","c","e">> >>],
     [label |-> "high", keywords |-> <<
        <<"h","i","g","h">>,
        <<"s","e","v","e","r","e">>,
        <<"m","a","j","o","r">>,
        <<"i","m","p","o","r","t","a","n","t">>,
        <<"e","x","p","l","o","i","t">> >>],
     [label |-> "low", keywords |-> <<
        <<"l","o","w">>,
        <<"m","i","n","o","r">>,
        <<"i","n","f","o","r","m","a","t","i","o","n","a","l">> >>] >>

(* ------------------------------ Python values -------------------------- *)

None == <<>>
Some(x) == <<x>>

\* truthiness of an Optional[str]: neither None nor ""
Truthy(text) == text # None /\ Len(text[1]) > 0

(* ------------------------------ classifier ----------------------------- *)

\* hmac.new(secret.encode(), payload, hashlib.sha256).hexdigest(), as a
\* symbolic term: equal digests exactly for equal key and equal message.
HmacSha256Hex(key, msg) == [alg |-> "hmac-sha256", key |-> key, msg |-> msg]

create_hmac_signature(payload, secret) ==
  <<"sha256=", HmacSha256Hex(secret, payload)>>

\* the two nested for loops with their early return: label ci, keyword ki
RECURSIVE FirstMatch(_, _, _, _, _)
FirstMatch(table, text, ci, ki, default) ==
  IF ci > Len(table) THEN default
  ELSE IF ki > Len(table[ci].keywords) THEN FirstMatch(table, text, ci + 1, 1, default)
  ELSE IF Contains(text, table[ci].keywords[ki]) THEN table[ci].label
  ELSE FirstMatch(table, text, ci, ki + 1, default)

\* a variant that compares the text as it is written
categorize_as_written(title, content) ==
  FirstMatch(CATEGORY_KEYWORDS, title \o <<" ">> \o content, 1, 1, "industry-news")

categorize_article(title, content) ==
  LET text == lower(title \o <<" ">> \o content)
  IN  FirstMatch(CATEGORY_KEYWORDS, text, 1, 1, "industry-news")

determine_severity(title, content) ==
  LET text == lower(title \o <<" ">> \o content)
  IN  FirstMatch(SEVERITY_KEYWORDS, text, 1, 1, "medium")

\* re.findall(r"CVE-\d{4}-\d+", text, re.IGNORECASE), upper-cased, as a set.
\* No character after the first of a match can start another match, so the
\* matches of the left-to-right scan are all the places the pattern matches.
CvePrefix == <<"c","v","e","-">>
extract_cves(text) ==
  LET n == Len(text)
      Start(i) == /\ i + 9 <= n
                  /\ \A j \in 1..4 : LowerChar(text[i + j - 1]) = CvePrefix[j]
                  /\ \A k \in 4..7 : IsDigit(text[i + k])
                  /\ text[i + 8] = "-"
                  /\ IsDigit(text[i + 9])
      End(i) == CHOOSE e \in (i + 9)..n :
                  /\ \A k \in (i + 9)..e : IsDigit(text[k])
                  /\ e = n \/ ~IsDigit(text[e + 1])
  IN  { upper(SubSeq(text, i, End(i))) : i \in {p \in 1..n : Start(p)} }

MinTagLen == 4
MaxTags == 5
stop_words ==
  { <<"t","h","e">>,
       <<"a">>,
       <<"a","n">>,
       <<"i","s">>,
       <<"i","n">>,
       <<"o","n">>,
       <<"a","t">>,
       <<"f","o","r">>,
       <<"t","o">>,
       <<"o","f">>,
       <<"a","n","d">>,
       <<"o","r">>,
       <<"w","i","t","h">>,
       <<"b","y">>,
       <<"f","r","o","m">> }

\* a variant without the two \b: every maximal run of letters is a candidate
generate_tags_letter_runs(title) ==
  LET t == lower(title)
      n == Len(t)
      starts == SelectSeq(Indices(n),
                  LAMBDA i : IsAlpha(t[i]) /\ (i = 1 \/ ~IsAlpha(t[i - 1])))
      EndOf(i) == CHOOSE e \in i..n :
                    /\ \A k \in i..e : IsAlpha(t[k])
                    /\ e = n \/ ~IsAlpha(t[e + 1])
      runs == [k \in 1..Len(starts) |-> SubSeq(t, starts[k], EndOf(starts[k]))]
      words == SelectSeq(runs, LAMBDA w : Len(w) >= MinTagLen)
  IN  Slice(SelectSeq(words, LAMBDA w : w \notin stop_words), MaxTags)

\* re.findall(r"\b[a-zA-Z]{4,}\b", title.lower()) filtered and cut to 5.
\* \b holds only at the two ends of a maximal run of \w characters, so a
\* match is such a run when all of it is letters and it has 4 or more.
generate_tags(title) ==
  LET t == lower(title)
      n == Len(t)
      starts == SelectSeq(Indices(n),
                  LAMBDA i : IsWord(t[i]) /\ (i = 1 \/ ~IsWord(t[i - 1])))
      EndOf(i) == CHOOSE e \in i..n :
                    /\ \A k \in i..e : IsWord(t[k])
                    /\ e = n \/ ~IsWord(t[e + 1])
      runs == [k \in 1..Len(starts) |-> SubSeq(t, starts[k], EndOf(starts[k]))]
      words == SelectSeq(runs,
                 LAMBDA w : Len(w) >= MinTagLen /\ \A k \in 1..Len(w) : IsAlpha(w[k]))
  IN  Slice(SelectSeq(words, LAMBDA w : w \notin stop_words), MaxTags)

(* ------------------------------ extractor ------------------------------ *)

TitleCap == 500
ContentCap == 10000
SummaryCap == 300

\* Element.find(tag): the first direct child with exactly that tag
find(elem, tag) ==
  LET hits == SelectSeq(elem.children, LAMBDA c : c.tag = tag)
  IN  IF Len(hits) = 0 THEN None ELSE Some(hits[1])

\* re.sub(r"<!\[CDATA\[|\]\]>", "", s): the two markers cannot overlap one
\* another, so every occurrence is removed.
CdataOpen == <<"<","!","[","C","D","A","T","A","[">>
CdataClose == <<"]","]",">">>
StripCdata(s) ==
  LET opens == {i \in 1..Len(s) : s[i] = "<" /\ At(s, i, CdataOpen)}
      closes == {i \in 1..Len(s) : s[i] = "]" /\ At(s, i, CdataClose)}
      dropped == {p \in 1..Len(s) :
                    \/ \E i \in opens : i <= p /\ p < i + Len(CdataOpen)
                    \/ \E i \in closes : i <= p /\ p < i + Len(CdataClose)}
  IN  Remove(s, dropped)

\* re.sub(r"<[^>]+>", "", s): a match starts at a "<" whose next character is
\* not ">" and that has a ">" further on, and ends at the first such ">"; a
\* "<" inside a match starts none, and whatever it would cover the enclosing
\* match covers.
StripTags(s) ==
  LET n == Len(s)
      gts == {j \in 1..n : s[j] = ">"}
      cands == {i \in 1..n : /\ s[i] = "<"
                             /\ i + 1 <= n
                             /\ s[i + 1] # ">"
                             /\ \E j \in gts : j > i + 1}
      End(i) == CHOOSE j \in gts : j > i + 1 /\ \A k \in gts : k > i + 1 => j <= k
      dropped == {p \in 1..n : \E i \in cands : i <= p /\ p <= End(i)}
  IN  Remove(s, dropped)

\* a variant that cuts the fields to their caps before it classifies them
BuildArticleTruncFirst(title, link, description, source_name) ==
  LET t == Slice(title, TitleCap)
      d == Slice(description, ContentCap)
  IN  [title |-> t,
       content |-> d,
       summary |-> Slice(description, SummaryCap),
       category_slug |-> categorize_article(t, d),
       severity |-> determine_severity(t, d),
       tags |-> generate_tags(t),
       source_url |-> link,
       source_name |-> source_name,
       cves |-> extract_cves(t \o <<" ">> \o d),
       vendors |-> <<>>,
       skip_enrichment |-> FALSE]

\* lines 109-126: classify the whole text, then cut the stored fields
BuildArticle(title, link, description, source_name) ==
  [title |-> Slice(title, TitleCap),
   content |-> Slice(description, ContentCap),
   summary |-> Slice(description, SummaryCap),
   category_slug |-> categorize_article(title, description),
   severity |-> determine_severity(title, description),
   tags |-> generate_tags(title),
   source_url |-> link,
   source_name |-> source_name,
   cves |-> extract_cves(title \o <<" ">> \o description),
   vendors |-> <<>>,
   skip_enrichment |-> FALSE]

parse_rss_item(item, source_name) ==
  LET title_elem == find(item, "title")
      link_elem == find(item, "link")
      desc_elem == find(item, "description")
      pub_date_elem == find(item, "pubDate")
  IN  IF title_elem = None \/ title_elem[1].text = None THEN None
      ELSE
        LET title == strip(title_elem[1].text[1])
            link == IF link_elem # None /\ Truthy(link_elem[1].text)
                    THEN strip(link_elem[1].text[1]) ELSE <<>>
            description ==
              IF desc_elem # None /\ Truthy(desc_elem[1].text)
              THEN strip(StripTags(StripCdata(desc_elem[1].text[1]))) ELSE <<>>
            pub_date == IF pub_date_elem # None /\ Truthy(pub_date_elem[1].text)
                        THEN strip(pub_date_elem[1].text[1]) ELSE <<>>
        IN  Some(BuildArticle(title, link, description, source_name))

(* ------------------------------ exceptions ----------------------------- *)

\* a variant that knows no subclasses
IsInstanceExact(exc, cls) == exc = cls

\* isinstance(exc, cls): urllib.error.HTTPError is a subclass of URLError
IsInstance(exc, cls) == exc = cls \/ (exc = "HTTPError" /\ cls = "URLError")

Raise(exc) == [raised |-> TRUE, exc |-> exc, value |-> None]
Return(v) == [raised |-> FALSE, exc |-> "none", value |-> Some(v)]

\* urlopen(req, timeout=30) and the read of the response, for what the far
\* end does: a refused or unresolvable connection is wrapped in URLError; a
\* peer that accepts and then stays silent times out in getresponse() or
\* read() with a bare TimeoutError; an answer whose status is not 2xx is
\* raised as HTTPError; a 2xx answer gives its body.
urlopen_read(far) ==
  IF far.conn = "refused" THEN Raise("URLError")
  ELSE IF far.conn = "stalled" THEN Raise("TimeoutError")
  ELSE IF ~(200 <= far.status /\ far.status < 300) THEN Raise("HTTPError")
  ELSE Return(far.body)

(* ------------------------------ feed fetcher --------------------------- *)

AtomEntry == "{http://www.w3.org/2005/Atom}entry"
AtomTitle == "{http://www.w3.org/2005/Atom}title"

\* ET.fromstring(content): a body that is no well-formed XML raises ParseError
fromstring(body) ==
  IF body.wellformed THEN Return(body.root) ELSE Raise("ParseError")

fetch_rss_feed(far) ==
  LET got == urlopen_read(far)
      tried == IF got.raised THEN got ELSE fromstring(got.value[1])
  IN  IF tried.raised /\ (IsInstance(tried.exc, "URLError") \/ IsInstance(tried.exc, "ParseError"))
      THEN Return(None)
      ELSE IF tried.raised THEN tried
      ELSE Return(tried.value)

\* root.findall(".//" + tag): the descendants with that tag, in document order
findall(root, tag) == SelectSeq(root.nodes, LAMBDA e : e.tag = tag)

\* lines 197-199: RSS items, and Atom entries only when there is no RSS item
DiscoverItems(root) ==
  LET items == findall(root, "item")
  IN  IF Len(items) = 0 THEN findall(root, AtomEntry) ELSE items

(* ------------------------------ webhook publisher ---------------------- *)

\* json.dumps(payload).encode("utf-8"): the bytes stand for the value
json_dumps(v) == [encoding |-> "utf-8", json |-> v]

\* lines 143-151; t1 and t2 are the two datetime.utcnow() readings
Envelope(article_data, t1, t2) ==
  [event_type |-> "article.created",
   data |-> article_data,
   metadata |-> [workflow_id |-> "rss-fetcher", execution_id |-> t1, timestamp |-> t2]]

\* a variant that signs the article alone and sends the whole envelope
BuildRequestSignData(payload) ==
  [url |-> WEBHOOK_URL,
   method |-> "POST",
   data |-> json_dumps(payload),
   headers |-> [ContentType |-> "application/json",
                XN8NSignature |-> create_hmac_signature(json_dumps(payload.data), WEBHOOK_SECRET)]]

\* lines 153-162: the envelope is serialized once, signed, and sent
BuildRequest(payload) ==
  LET payload_bytes == json_dumps(payload)
      signature == create_hmac_signature(payload_bytes, WEBHOOK_SECRET)
  IN  [url |-> WEBHOOK_URL,
       method |-> "POST",
       data |-> payload_bytes,
       headers |-> [ContentType |-> "application/json", XN8NSignature |-> signature]]

\* lines 164-166: json.loads of the body, result.get('status', 'unknown')
ReadResult(body) ==
  IF ~body.json THEN Raise("JSONDecodeError")
  ELSE IF ~body.object THEN Raise("AttributeError")
  ELSE Return(TRUE)

\* lines 161-169
post_to_webhook(far) ==
  LET got == urlopen_read(far)
      tried == IF got.raised THEN got ELSE ReadResult(got.value[1])
  IN  IF tried.raised /\ IsInstance(tried.exc, "URLError") THEN Return(FALSE)
      ELSE tried

(* ------------------------------ orchestrator --------------------------- *)

ItemsPerFeed == 10

\* a variant that runs over every discovered item
ItemsAll(items) == items

\* line 204: items[:10]
ItemsToProcess(items) == Slice(items, ItemsPerFeed)

\* a variant that counts every publish call as a success
CountSuccessAlways(success, delivered) == success + 1

\* lines 208-209
CountSuccess(success, delivered) == IF delivered THEN success + 1 ELSE success

\* line 217
ExitStatus(success) == IF success > 0 THEN 0 ELSE 1

\* an exception that leaves main ends the interpreter with status 1
UncaughtExitStatus == 1

(* ------------------------------ input texts ---------------------------- *)

\* "Critical RCE bug"
TxtCriticalBug == <<"C","r","i","t","i","c","a","l"," ","R","C","E"," ","b","u","g">>

\* " Breach at bank "
TxtBreach == <<" ","B","r","e","a","c","h"," ","a","t"," ","b","a","n","k"," ">>

\* "  "
TxtBlank == <<" "," ">>

\* "Atom post"
TxtAtomPost == <<"A","t","o","m"," ","p","o","s","t">>

\* " http://a/1 "
TxtLinkA == <<" ","h","t","t","p",":","/","/","a","/","1"," ">>

\* "Mon, 02 Nov 2026"
TxtDate == <<"M","o","n",","," ","0","2"," ","N","o","v"," ","2","0","2","6">>

\* "<p>Patch <b>now</b></p>"
TxtPatchHtml == <<"<","p",">","P","a","t","c","h"," ","<","b",">","n","o","w","<","/","b",">","<","/","p",">">>

\* "<p>Patch <b>cve-2024-21</b> now</p>"
TxtPatchCve == <<"<","p",">","P","a","t","c","h"," ","<","b",">","c","v","e","-","2","0","2","4","-","2","1","<","/","b",">"," ","n","o","w","<","/","p",">">>

\* "<![CDATA[ <i>minor</i> leak ]]>"
TxtCdata == <<"<","!","[","C","D","A","T","A","["," ","<","i",">","m","i","n","o","r","<","/","i",">"," ","l","e","a","k"," ","]","]",">">>

\* "a < b"
TxtLess == <<"a"," ","<"," ","b">>

\* "Story "
TxtItemPrefix == <<"S","t","o","r","y"," ">>

\* " Ransomware CVE-2024-12345"
TxtTailRansom == <<" ","R","a","n","s","o","m","w","a","r","e"," ","C","V","E","-","2","0","2","4","-","1","2","3","4","5">>

\* " Lazarus urgent cve-2023-1234</p>"
TxtTailLazarus == <<" ","L","a","z","a","r","u","s"," ","u","r","g","e","n","t"," ","c","v","e","-","2","0","2","3","-","1","2","3","4","<","/","p",">">>

\* "<p> "
TxtOpenP == <<"<","p",">"," ">>

\* ""
TxtEmpty == <<>>

\* "Security"
TxtSecurity == <<"S","e","c","u","r","i","t","y">>

\* "Critical RCE vulnerability in product X"
TxtSpecExample == <<"C","r","i","t","i","c","a","l"," ","R","C","E"," ","v","u","l","n","e","r","a","b","i","l","i","t","y"," ","i","n"," ","p","r","o","d","u","c","t"," ","X">>

\* "RANSOMWARE leak"
TxtRansomLeak == <<"R","A","N","S","O","M","W","A","R","E"," ","l","e","a","k">>

\* "New strategy"
TxtStrategy == <<"N","e","w"," ","s","t","r","a","t","e","g","y">>

\* "Quarterly numbers"
TxtQuarterly == <<"Q","u","a","r","t","e","r","l","y"," ","n","u","m","b","e","r","s">>

\* "GDPR fine"
TxtGdpr == <<"G","D","P","R"," ","f","i","n","e">>

\* "Lazarus APT29 phishing"
TxtLazarus == <<"L","a","z","a","r","u","s"," ","A","P","T","2","9"," ","p","h","i","s","h","i","n","g">>

\* "flaw found"
TxtFlaw == <<"f","l","a","w"," ","f","o","u","n","d">>

\* "minor update"
TxtMinor == <<"m","i","n","o","r"," ","u","p","d","a","t","e">>

\* "High impact breach"
TxtHighBreach == <<"H","i","g","h"," ","i","m","p","a","c","t"," ","b","r","e","a","c","h">>

\* "actively exploited"
TxtExploited == <<"a","c","t","i","v","e","l","y"," ","e","x","p","l","o","i","t","e","d">>

\* "Botnet SCAM"
TxtBotnet == <<"B","o","t","n","e","t"," ","S","C","A","M">>

\* "nothing here"
TxtNothing == <<"n","o","t","h","i","n","g"," ","h","e","r","e">>

\* "Urgent PCI audit"
TxtUrgentPci == <<"U","r","g","e","n","t"," ","P","C","I"," ","a","u","d","i","t">>

(* ------------------------------ inputs --------------------------------- *)

\* how far the long inputs run past a length cap; items in the long feed;
\* the last clock reading
PadExtra == 5
LongFeedLen == 12
MaxClock == 1

Rep(n, c) == [i \in 1..n |-> c]
Elem(tag, text) == [tag |-> tag, text |-> text]
Node(tag, children) == [tag |-> tag, children |-> children]

\* a title of more than TitleCap characters whose keyword and CVE lie past the cap
LongTitle == Rep(TitleCap + PadExtra, "x") \o TxtTailRansom
\* descriptions of more than ContentCap characters after sanitizing
LongDescA == TxtOpenP \o Rep(ContentCap + PadExtra, "y") \o TxtTailLazarus
LongDescB == Rep(ContentCap - 10, "z") \o TxtTailRansom \o TxtPatchHtml

ItemFull == Node("item", << Elem("title", Some(TxtCriticalBug)),
                            Elem("link", Some(TxtLinkA)),
                            Elem("description", Some(TxtPatchCve)),
                            Elem("pubDate", Some(TxtDate)) >>)
ItemNoTitle == Node("item", << Elem("description", Some(TxtCdata)) >>)
ItemBlankTitle == Node("item", << Elem("title", Some(TxtBlank)), Elem("link", Some(TxtLinkA)) >>)
ItemEmptyTitle == Node("item", << Elem("title", None), Elem("description", Some(TxtLess)) >>)
ItemTitleOnly == Node("item", << Elem("title", Some(TxtBreach)) >>)
ItemNumbered(i) == Node("item", << Elem("title", Some(TxtItemPrefix \o <<LowerLetters[i]>>)) >>)
EntryAtom == Node(AtomEntry, << Elem(AtomTitle, Some(TxtAtomPost)),
                                Elem("{http://www.w3.org/2005/Atom}link", None) >>)
EntryPlainTitle == Node(AtomEntry, << Elem("title", Some(TxtBreach)) >>)
Channel == Node("channel", <<>>)

\* the documents a feed URL may answer with
DocNoItems == [nodes |-> << Channel >>]
DocRss == [nodes |-> << Channel, ItemFull, ItemNoTitle, ItemBlankTitle, ItemEmptyTitle, ItemTitleOnly >>]
DocLong == [nodes |-> << Channel >> \o [i \in 1..LongFeedLen |-> ItemNumbered(i)]]
DocAtom == [nodes |-> << EntryAtom, EntryPlainTitle >>]
DocMixed == [nodes |-> << EntryAtom, ItemTitleOnly >>]
Docs == {DocNoItems, DocRss, DocLong, DocAtom, DocMixed}

NoBody == [wellformed |-> FALSE, root |-> DocNoItems]
NoReply == [json |-> FALSE, object |-> FALSE, status |-> "none"]

\* what the far end of a GET may do
GetAnswers ==
  {[conn |-> c, status |-> 0, body |-> NoBody] : c \in {"refused", "stalled"}}
  \cup {[conn |-> "answered", status |-> 503, body |-> NoBody]}
  \cup {[conn |-> "answered", status |-> 200, body |-> NoBody]}
  \cup {[conn |-> "answered", status |-> 200, body |-> [wellformed |-> TRUE, root |-> d]] : d \in Docs}

\* the bodies a webhook may answer with: JSON objects, other JSON, no JSON
PostBodies ==
  {[json |-> TRUE, object |-> TRUE, status |-> "success"],
   [json |-> TRUE, object |-> TRUE, status |-> "error"],
   [json |-> TRUE, object |-> FALSE, status |-> "none"],
   NoReply}

\* what the far end of a POST may do
PostAnswers ==
  {[conn |-> c, status |-> 0, body |-> NoReply] : c \in {"refused", "stalled"}}
  \cup {[conn |-> "answered", status |-> 500, body |-> b] : b \in {NoReply, [json |-> TRUE, object |-> TRUE, status |-> "error"]}}
  \cup {[conn |-> "answered", status |-> 200, body |-> b] : b \in PostBodies}

Times == 0..MaxClock

\* (title, content) pairs for the classifier
ClassifyTitles == {TxtEmpty, TxtSecurity, TxtSpecExample, TxtRansomLeak, TxtStrategy,
                   TxtQuarterly, TxtGdpr, TxtLazarus}
ClassifyContents == {TxtEmpty, TxtFlaw, TxtMinor, TxtHighBreach, TxtExploited,
                     TxtBotnet, TxtNothing, TxtUrgentPci}
ClassifyInputs == {[title |-> t, content |-> c] : t \in ClassifyTitles, c \in ClassifyContents}

\* items for the extractor: every combination of short fields, and the long ones
TitleChoices == {<<>>, <<Elem("title", None)>>, <<Elem("title", Some(TxtBlank))>>,
                 <<Elem("title", Some(TxtBreach))>>, <<Elem("title", Some(TxtCriticalBug))>>,
                 <<Elem(AtomTitle, Some(TxtAtomPost))>>}
DescChoices == {<<>>, <<Elem("description", None)>>, <<Elem("description", Some(TxtPatchHtml))>>,
                <<Elem("description", Some(TxtCdata))>>, <<Elem("description", Some(TxtLess))>>}
LinkChoices == {<<>>, <<Elem("link", Some(TxtLinkA))>>}
LongItems ==
  {Node("item", t \o d) :
     t \in {<<Elem("title", Some(TxtBreach))>>, <<Elem("title", Some(LongTitle))>>},
     d \in {<<Elem("description", Some(LongDescA))>>, <<Elem("description", Some(LongDescB))>>}}
  \cup {Node("item", <<Elem("title", Some(LongTitle))>>)}
ExtractInputs ==
  {Node("item", t \o l \o d) : t \in TitleChoices, l \in LinkChoices, d \in DescChoices}
  \cup LongItems

(* ------------------------------ state ---------------------------------- *)

VARIABLES
  pc,              \* "fetch", "items", "returned", "raised"; "call" for a bare function
  feed,            \* index into RSS_FEEDS of the feed being processed
  items,           \* the item list discovered in the current feed
  batch,           \* items[:10], the list the for loop runs over
  pos,             \* position in batch of the next item
  total_articles,
  success_count,
  exit_status,     \* None while running, Some(status) once the process has ended
  offered,         \* the items handed to parse_rss_item for the current feed
  stats,           \* what happened so far: Articles extracted, publish calls, deliveries
  last,            \* None, or the last item processed and what was done with it
  arg,             \* input of a function applied on its own
  ret              \* its result

vars == <<pc, feed, items, batch, pos, total_articles, success_count, exit_status,
          offered, stats, last, arg, ret>>

mainVars == <<pc, feed, items, batch, pos, total_articles, success_count, exit_status,
              offered, stats, last>>

NoStats == [extracted |-> 0, posts |-> 0, delivered |-> 0, feed_extracted |-> 0, feed_posts |-> 0]

\* lines 181-184
Init ==
  /\ pc = "fetch"
  /\ feed = 1
  /\ items = <<>>
  /\ batch = <<>>
  /\ pos = 1
  /\ total_articles = 0
  /\ success_count = 0
  /\ exit_status = None
  /\ offered = <<>>
  /\ stats = NoStats
  /\ last = None
  /\ arg = None
  /\ ret = None

\* an exception leaves main: the traceback is printed and the process ends
Crash ==
  /\ pc' = "raised"
  /\ exit_status' = Some(UncaughtExitStatus)

\* lines 184-201: the next feed is fetched and its items are discovered
FetchFeed ==
  /\ pc = "fetch"
  /\ feed <= Len(RSS_FEEDS)
  /\ \E far \in GetAnswers :
       LET root == fetch_rss_feed(far)
       IN  IF root.raised
           THEN /\ Crash
                /\ UNCHANGED <<feed, items, batch, pos, offered, stats>>
           ELSE IF root.value[1] = None
           THEN /\ feed' = feed + 1
                /\ UNCHANGED <<pc, exit_status, items, batch, pos, offered, stats>>
           ELSE /\ items' = DiscoverItems(root.value[1][1])
                /\ batch' = ItemsToProcess(items')
                /\ pos' = 1
                /\ offered' = <<>>
                /\ stats' = [stats EXCEPT !.feed_extracted = 0, !.feed_posts = 0]
                /\ pc' = "items"
                /\ UNCHANGED <<feed, exit_status>>
  /\ UNCHANGED <<total_articles, success_count, last, arg, ret>>

\* lines 204-209: one turn of the for loop
ProcessItem ==
  /\ pc = "items"
  /\ pos <= Len(batch)
  /\ \E item \in {batch[pos]} :
     \E article_data \in {parse_rss_item(item, RSS_FEEDS[feed].name)} :
         /\ offered' = Append(offered, item)
         /\ IF article_data = None
            THEN /\ pos' = pos + 1
                 /\ last' = Some([item |-> item, article |-> None, request |-> None,
                                  far |-> None, result |-> "none",
                                  total_before |-> total_articles,
                                  success_before |-> success_count])
                 /\ UNCHANGED <<pc, exit_status, total_articles, success_count, stats>>
            ELSE \E far \in PostAnswers, t1 \in Times, t2 \in Times :
                   /\ t1 <= t2
                   /\ LET request == BuildRequest(Envelope(article_data[1], t1, t2))
                          posted == post_to_webhook(far)
                          delivered == ~posted.raised /\ posted.value[1]
                      IN  /\ total_articles' = total_articles + 1
                          /\ stats' = [stats EXCEPT
                                         !.extracted = @ + 1,
                                         !.feed_extracted = @ + 1,
                                         !.posts = @ + 1,
                                         !.feed_posts = @ + 1,
                                         !.delivered = IF delivered THEN @ + 1 ELSE @]
                          /\ last' = Some([item |-> item, article |-> article_data,
                                           request |-> Some(request), far |-> Some(far),
                                           result |-> IF posted.raised THEN "raised"
                                                      ELSE IF posted.value[1] THEN "True"
                                                      ELSE "False",
                                           total_before |-> total_articles,
                                           success_before |-> success_count])
                          /\ IF posted.raised
                             THEN /\ Crash
                                  /\ UNCHANGED <<pos, success_count>>
                             ELSE /\ success_count' = CountSuccess(success_count, posted.value[1])
                                  /\ pos' = pos + 1
                                  /\ UNCHANGED <<pc, exit_status>>
  /\ UNCHANGED <<feed, items, batch, arg, ret>>

\* lines 204, 211: the for loop is exhausted and the next feed is taken up
EndFeed ==
  /\ pc = "items"
  /\ pos > Len(batch)
  /\ pc' = "fetch"
  /\ feed' = feed + 1
  /\ UNCHANGED <<items, batch, pos, total_articles, success_count, exit_status,
                 offered, stats, last, arg, ret>>

\* lines 213-217 and 221: the summary is printed and sys.exit(main()) ends the process
ReturnMain ==
  /\ pc = "fetch"
  /\ feed > Len(RSS_FEEDS)
  /\ pc' = "returned"
  /\ exit_status' = Some(ExitStatus(success_count))
  /\ UNCHANGED <<feed, items, batch, pos, total_articles, success_count,
                 offered, stats, last, arg, ret>>

Next == FetchFeed \/ ProcessItem \/ EndFeed \/ ReturnMain

Spec == Init /\ [][Next]_vars

(* ------------------------------ functions on their own ----------------- *)

InitCall ==
  /\ pc = "call"
  /\ feed = 1
  /\ items = <<>>
  /\ batch = <<>>
  /\ pos = 1
  /\ total_articles = 0
  /\ success_count = 0
  /\ exit_status = None
  /\ offered = <<>>
  /\ stats = NoStats
  /\ last = None
  /\ ret = None

InitClassify == InitCall /\ arg \in ClassifyInputs

CallCategorize ==
  /\ ret = None
  /\ ret' = Some([fn |-> "categorize_article",
                  value |-> categorize_article(arg.title, arg.content)])
  /\ UNCHANGED <<mainVars, arg>>

CallSeverity ==
  /\ ret = None
  /\ ret' = Some([fn |-> "determine_severity",
                  value |-> determine_severity(arg.title, arg.content)])
  /\ UNCHANGED <<mainVars, arg>>

NextClassify == CallCategorize \/ CallSeverity

SpecClassify == InitClassify /\ [][NextClassify]_vars

InitExtract == InitCall /\ arg \in ExtractInputs

CallParse ==
  /\ ret = None
  /\ ret' = Some(parse_rss_item(arg, RSS_FEEDS[1].name))
  /\ UNCHANGED <<mainVars, arg>>

NextExtract == CallParse

SpecExtract == InitExtract /\ [][NextExtract]_vars

(* ------------------------------ tags on their own ---------------------- *)

\* "The"
WordThe == <<"T","h","e">>

\* "tests"
WordTests == <<"t","e","s","t","s">>

\* "abcd1"
WordAbcdDigit == <<"a","b","c","d","1">>

\* "9word"
WordDigitWord == <<"9","w","o","r","d">>

\* "with"
WordWith == <<"w","i","t","h">>

\* "from"
WordFrom == <<"f","r","o","m">>

\* "Over"
WordOver == <<"O","v","e","r">>

\* "hello"
WordHello == <<"h","e","l","l","o">>

\* "abc"
WordAbc == <<"a","b","c">>

\* "The Quick Brown Fox Jumps Over The Lazy Sleeping Dogs"
TxtPangram == <<"T","h","e"," ","Q","u","i","c","k"," ","B","r","o","w","n"," ","F","o","x"," ","J","u","m","p","s"," ","O","v","e","r"," ","T","h","e"," ","L","a","z","y"," ","S","l","e","e","p","i","n","g"," ","D","o","g","s">>

\* "data data DATA breach data data data"
TxtRepeat == <<"d","a","t","a"," ","d","a","t","a"," ","D","A","T","A"," ","b","r","e","a","c","h"," ","d","a","t","a"," ","d","a","t","a"," ","d","a","t","a">>

\* "with from the and"
TxtAllStop == <<"w","i","t","h"," ","f","r","o","m"," ","t","h","e"," ","a","n","d">>

\* titles for generate_tags: two words with a separator between them, and
\* titles with more than five candidates, repeated words, stop words only
TagWords == {WordThe, WordTests, WordAbcdDigit, WordDigitWord, WordWith, WordFrom, WordOver, WordHello, WordAbc}
TagSeparators == {<<" ">>, <<"_">>, <<"-">>, <<>>}
TagInputs ==
  {a \o sep \o b : a \in TagWords, sep \in TagSeparators, b \in TagWords}
  \cup {TxtPangram, TxtRepeat, TxtAllStop}

InitTags == InitCall /\ arg \in TagInputs

CallTags ==
  /\ ret = None
  /\ ret' = Some(generate_tags(arg))
  /\ UNCHANGED <<mainVars, arg>>

NextTags == CallTags

SpecTags == InitTags /\ [][NextTags]_vars

(* ------------------------------ properties ----------------------------- *)

Min(a, b) == IF a < b THEN a ELSE b

\* the first n characters of s, one by one
Prefix(s, n) == [i \in 1..n |-> s[i]]

\* C1: whenever the process has ended, its exit status is 0 exactly when
\* successCount > 0 at the end of the run.
C1_ExitZeroIffSuccess ==
  exit_status # None => (exit_status[1] = 0 <=> success_count > 0)

\* On the runs in which main returns, the exit status does follow successCount.
ReturnedExitFollowsSuccess ==
  pc = "returned" => (exit_status[1] = 0 <=> success_count > 0)

\* C2: the items handed to the Extractor for a feed are the first items of the
\* discovered list, in document order, never one at position 11 or later, and
\* all of the first min(10, n) once the feed is done; so a feed adds at most 10
\* to totalArticles and makes at most 10 publish attempts.
C2_OnlyFirstTen ==
  /\ Len(offered) <= Min(10, Len(items))
  /\ \A k \in 1..Len(offered) : k <= 10 /\ offered[k] = items[k]
  /\ (pc = "items" /\ pos > Len(batch)) => Len(offered) = Min(10, Len(items))
  /\ stats.feed_extracted <= 10
  /\ stats.feed_posts <= 10
  /\ total_articles <= 10 * Min(feed, Len(RSS_FEEDS))

\* a feed of more than 10 items has been worked through: 10 items were handed over
C2_Witness ==
  /\ pc = "items"
  /\ pos > Len(batch)
  /\ Len(items) > 10
  /\ Len(offered) = 10
  /\ stats.feed_posts = 10

\* C3: totalArticles is the number of Articles extracted, each was published
\* exactly once, successCount is the number of publish calls that reported
\* delivery, and successCount <= totalArticles; for the item just processed,
\* totalArticles went up by one exactly if an Article came out of it (also when
\* the publish call then failed), and successCount went up by one exactly if
\* the publish call reported delivery.
C3_CountersCountArticles ==
  /\ total_articles = stats.extracted
  /\ stats.posts = stats.extracted
  /\ success_count = stats.delivered
  /\ success_count <= total_articles
  /\ last # None =>
       /\ total_articles = last[1].total_before + (IF last[1].article # None THEN 1 ELSE 0)
       /\ (last[1].request # None) = (last[1].article # None)
       /\ success_count = last[1].success_before + (IF last[1].result = "True" THEN 1 ELSE 0)

\* a run has returned with some Articles delivered and some not
C3_Witness ==
  /\ pc = "returned"
  /\ success_count >= 2
  /\ total_articles > success_count

\* what the far end did at the last publish call
Answered(far) == far.conn = "answered"
Status2xx(far) == 200 <= far.status /\ far.status < 300

C5_NoErrorFatal == pc # "raised"

\* the title an item shows to find("title"), None when there is none
TitleText(item) ==
  LET e == find(item, "title")
  IN  IF e = None THEN None ELSE e[1].text

\* C6: an item whose title is absent, has no text, or is empty once stripped
\* yields no Article, is not published, and leaves both counters as they were.
C6_NoTitleNoArticle ==
  (last # None /\ (TitleText(last[1].item) = None \/ strip(TitleText(last[1].item)[1]) = <<>>)) =>
    /\ last[1].article = None
    /\ last[1].request = None
    /\ total_articles = last[1].total_before
    /\ success_count = last[1].success_before

\* whether an RSS item or Atom entry carries a title element, in its own
\* namespace, with text that is not empty once stripped
HasTitle(item) ==
  \E i \in DOMAIN item.children :
    /\ item.children[i].tag = (IF item.tag = AtomEntry THEN AtomTitle ELSE "title")
    /\ item.children[i].text # None
    /\ strip(item.children[i].text[1]) # <<>>

\* C7: every discovered item, RSS item or Atom entry, with a present and
\* non-empty title yields an Article, which is counted and published.
C7_TitledItemYieldsArticle ==
  (last # None /\ HasTitle(last[1].item)) =>
    /\ last[1].article # None
    /\ last[1].request # None
    /\ total_articles = last[1].total_before + 1

\* C8: the request of every publish attempt carries, as its signature header,
\* "sha256=" and the HMAC-SHA256 under the shared secret of the very bytes it
\* carries as its body, and these bytes are the one serialization of the
\* envelope of the Article.
C8_SignatureOverBodySent ==
  (last # None /\ last[1].request # None) =>
    LET req == last[1].request[1]
    IN  /\ req.method = "POST"
        /\ req.headers.XN8NSignature = <<"sha256=", HmacSha256Hex(WEBHOOK_SECRET, req.data)>>
        /\ req.data.json.event_type = "article.created"
        /\ req.data.json.data = last[1].article[1]

\* an Article was delivered in an envelope whose two clock readings differ
C8_Witness ==
  /\ last # None
  /\ last[1].request # None
  /\ last[1].result = "True"
  /\ last[1].request[1].data.json.metadata.execution_id
       # last[1].request[1].data.json.metadata.timestamp
  /\ last[1].request[1].data.json.data.cves # {}

\* whether keyword kw occurs in text, letter case aside
OccursIn(kw, text) ==
  \E i \in 1..(Len(text) - Len(kw) + 1) :
    \A j \in 1..Len(kw) : LowerChar(text[i + j - 1]) = LowerChar(kw[j])

\* the labels of a keyword table that have a keyword occurring in text
LabelsFound(table, text) ==
  {ci \in DOMAIN table :
     \E ki \in DOMAIN table[ci].keywords : OccursIn(table[ci].keywords[ki], text)}

\* the first of them in the declared order, or the default
FirstLabel(table, text, default) ==
  LET found == LabelsFound(table, text)
  IN  IF found = {} THEN default
      ELSE table[CHOOSE ci \in found : \A cj \in found : ci <= cj].label

\* C9: categorize_article and determine_severity return, for every title and
\* content, the first label in the declared order of their table that has a
\* keyword occurring, letter case aside, in title + " " + content, and the
\* default ("industry-news", "medium") when no label has one.
C9_FirstMatchOrDefault ==
  ret # None =>
    LET text == arg.title \o <<" ">> \o arg.content
    IN  ret[1].value =
          IF ret[1].fn = "categorize_article"
          THEN FirstLabel(CATEGORY_KEYWORDS, text, "industry-news")
          ELSE FirstLabel(SEVERITY_KEYWORDS, text, "medium")

\* an upper-case keyword of the second category wins over keywords of three
\* later categories that the text holds as well
C9_Witness ==
  /\ ret # None
  /\ ret[1].fn = "categorize_article"
  /\ ret[1].value = "ransomware"
  /\ LabelsFound(CATEGORY_KEYWORDS, arg.title \o <<" ">> \o arg.content) = {2, 3, 4, 5}
  /\ ~Contains(arg.title, CATEGORY_KEYWORDS[2].keywords[1])

\* the description of an item after sanitizing: CDATA markers and tags
\* removed, then stripped; empty when there is none
Sanitized(item) ==
  LET e == find(item, "description")
  IN  IF e = None \/ e[1].text = None THEN <<>>
      ELSE strip(StripTags(StripCdata(e[1].text[1])))

\* C10: for every item that yields an Article, with t the stripped title and
\* s the sanitized description: category, severity and CVEs are those of the
\* whole of t and s, the content is the prefix of s of length min(|s|, 10000),
\* the summary the prefix of length min(|s|, 300), and the title the prefix of
\* t of length min(|t|, 500).
C10_ClassifyThenTruncate ==
  (ret # None /\ ret[1] # None) =>
    LET a == ret[1][1]
        t == strip(TitleText(arg)[1])
        s == Sanitized(arg)
        text == t \o <<" ">> \o s
    IN  /\ a.category_slug = FirstLabel(CATEGORY_KEYWORDS, text, "industry-news")
        /\ a.severity = FirstLabel(SEVERITY_KEYWORDS, text, "medium")
        /\ a.cves = extract_cves(text)
        /\ a.content = Prefix(s, Min(Len(s), 10000))
        /\ a.summary = Prefix(s, Min(Len(s), 300))
        /\ a.title = Prefix(t, Min(Len(t), 500))

\* an Article whose title and content were cut, with a category, a severity
\* and CVEs that only the text beyond the caps gives
C10_Witness ==
  /\ ret # None
  /\ ret[1] # None
  /\ Len(Sanitized(arg)) > 10000
  /\ Len(ret[1][1].content) = 10000
  /\ Len(ret[1][1].summary) = 300
  /\ Len(ret[1][1].title) = 500
  /\ ret[1][1].category_slug = "vulnerabilities"
  /\ ret[1][1].severity = "critical"
  /\ Cardinality(ret[1][1].cves) = 2
  /\ LabelsFound(CATEGORY_KEYWORDS, ret[1][1].title \o <<" ">> \o ret[1][1].content) = {}
  /\ LabelsFound(SEVERITY_KEYWORDS, ret[1][1].title \o <<" ">> \o ret[1][1].content) = {}
  /\ extract_cves(ret[1][1].title \o <<" ">> \o ret[1][1].content) = {}

\* the maximal runs, from position i on, of characters of text that are in
\* class, in order of appearance; run is the run being read
RECURSIVE RunsFrom(_, _, _, _)
RunsFrom(text, i, class, run) ==
  IF i > Len(text) THEN (IF run = <<>> THEN <<>> ELSE <<run>>)
  ELSE IF text[i] \in class THEN RunsFrom(text, i + 1, class, Append(run, text[i]))
  ELSE (IF run = <<>> THEN <<>> ELSE <<run>>) \o RunsFrom(text, i + 1, class, <<>>)

AllLetters(w) == \A k \in 1..Len(w) : w[k] \in AlphaSet

\* the first five, in order and with repetitions, of the candidates that are
\* all letters, have four letters or more and are no stop word
FirstFiveTags(candidates) ==
  LET kept == SelectSeq(candidates,
                LAMBDA w : AllLetters(w) /\ Len(w) >= 4 /\ w \notin stop_words)
  IN  Prefix(kept, Min(Len(kept), 5))

\* C11 as stated: the tags are the first 5, in order and without
\* deduplication, of the lower-cased maximal runs of letters of length >= 4
\* that are no stop words, runs next to a digit or an underscore included.
C11_TagsAreLetterRuns ==
  ret # None => ret[1] = FirstFiveTags(RunsFrom(lower(arg), 1, AlphaSet, <<>>))

\* C11, amended: the tags are the first 5, in order and without
\* deduplication, of the lower-cased maximal runs of word characters (letters,
\* digits, underscore) that are made of letters only, have length >= 4 and are
\* no stop words, so that a run of letters next to a digit or an underscore
\* gives no tag; no tag is a stop word or shorter than 4, and there are at most 5.
C11_TagsAreWholeWords ==
  ret # None =>
    /\ ret[1] = FirstFiveTags(RunsFrom(lower(arg), 1, WordSet, <<>>))
    /\ Len(ret[1]) <= 5
    /\ \A k \in 1..Len(ret[1]) :
         /\ ret[1][k] \notin stop_words
         /\ Len(ret[1][k]) >= 4
         /\ AllLetters(ret[1][k])
         /\ ret[1][k] = lower(ret[1][k])

\* a title with a run of four letters next to a digit or an underscore, which
\* is no tag, and a word of its own, which is the only tag
C11_Witness ==
  /\ ret # None
  /\ Len(ret[1]) = 1
  /\ Len(FirstFiveTags(RunsFrom(lower(arg), 1, AlphaSet, <<>>))) = 2
  /\ \E i \in 1..Len(arg) : arg[i] \in Digits \cup {"_"}

====
